---- MODULE Spec2Model ----
(***************************************************************************)
(* Model of the chat page of childcare-ui (src/app/page.tsx, component     *)
(* Home): the UI state held in React hooks, the send() round trip with its *)
(* request builder and response normalizer, and the in-flight calls.       *)
(*                                                                         *)
(* JavaScript values that cross the network are modelled as tagged records *)
(* so that undefined, null, strings, arrays and objects stay distinct.     *)
(* The em-dash of the source's error text is written "--" because the      *)
(* module is ASCII.                                                        *)
(***************************************************************************)
EXTENDS Integers, Sequences, FiniteSets, TLC

VARIABLES
    input,       \* useState("")            free text of the input box
    state,       \* useState("PA")          selected region
    intent,      \* useState("LOOKUP_RULE") selected intent
    messages,    \* useState<Message[]>([]) the message log
    loading,     \* useState(false)
    county,      \* cost form: county name
    countyFips,  \* cost form: county FIPS
    age,         \* cost form: age group
    setting,     \* cost form: setting
    metric,      \* cost form: metric
    units,       \* cost form: units
    pending,     \* fetch() calls issued and not yet settled
    nsent,       \* number of fetch() calls issued so far
    arrived,     \* settled calls in settlement order, with the message each produced
    handler,     \* the event handler or continuation that ran last
    edits,       \* number of form/selector edits so far
    estimator    \* the useState cells of the CostEstimator component, its calls in flight

uiVars   == <<input, state, intent, county, countyFips, age, setting, metric, units>>
formVars == <<county, countyFips, age, setting, metric, units>>
vars     == <<input, state, intent, messages, loading, county, countyFips, age,
              setting, metric, units, pending, nsent, arrived, handler, edits,
             estimator>>

----------------------------------------------------------------------------
(* Bounds *)

MaxSends == 2
MaxEdits == 2
MaxAnswers == 3
MaxProviders == 2

----------------------------------------------------------------------------
(* JavaScript values *)

Undefined == [t |-> "undefined"]
Null      == [t |-> "null"]
Str(s)    == [t |-> "string", v |-> s]
Arr(a)    == [t |-> "array", v |-> a]
Obj(r)    == [t |-> "object", v |-> r]
Num(n)    == [t |-> "number", v |-> n]
Bool(b)   == [t |-> "boolean", v |-> b]

IsNullish(x) == x.t \in {"undefined", "null"}

\* ToBoolean: undefined, null, "" and 0 are falsy; arrays and objects are truthy
Truthy(x) ==
    CASE x.t = "undefined" -> FALSE
      [] x.t = "null"      -> FALSE
      [] x.t = "string"    -> x.v # ""
      [] x.t = "number"    -> x.v # 0
      [] x.t = "boolean"   -> x.v
      [] OTHER             -> TRUE

\* a || b
OrElse(a, b) == IF Truthy(a) THEN a ELSE b

\* a ?? b
Coalesce(a, b) == IF IsNullish(a) THEN b ELSE a

\* Array.isArray
IsArray(x) == x.t = "array"

\* o.k on a non-nullish value: a missing property reads as undefined
Get(o, k) ==
    IF o.t = "object" /\ k \in DOMAIN o.v THEN o.v[k] ELSE Undefined

\* o?.k
OptGet(o, k) == IF IsNullish(o) THEN Undefined ELSE Get(o, k)

\* `${x}` in a template literal
TemplateStr(x) ==
    CASE x.t = "undefined" -> "undefined"
      [] x.t = "null"      -> "null"
      [] x.t = "string"    -> x.v
      [] x.t = "number"    -> ToString(x.v)
      [] x.t = "boolean"   -> IF x.v THEN "true" ELSE "false"
      [] OTHER             -> "[object Object]"

\* a === b
StrictEq(a, b) == a.t = b.t /\ a = b

IsSpace(c) == c \in {" ", "\t", "\n", "\r"}

RECURSIVE TrimStart(_)
TrimStart(s) ==
    IF Len(s) = 0 THEN s
    ELSE IF IsSpace(Head(s)) THEN TrimStart(Tail(s)) ELSE s

RECURSIVE TrimEnd(_)
TrimEnd(s) ==
    IF Len(s) = 0 THEN s
    ELSE IF IsSpace(SubSeq(s, Len(s), Len(s))) THEN TrimEnd(SubSeq(s, 1, Len(s) - 1)) ELSE s

\* String.prototype.trim
Trim(s) == TrimEnd(TrimStart(s))

----------------------------------------------------------------------------
(* Messages *)

\* { role: "user", content: q }
UserMsg(q) ==
    [role |-> "user", content |-> Str(q),
     citations |-> Undefined, providers |-> Undefined, data |-> Undefined]

\* { role: "assistant", content: c }
PlainAssistantMsg(c) ==
    [role |-> "assistant", content |-> c,
     citations |-> Undefined, providers |-> Undefined, data |-> Undefined]

IsUser(m)      == m.role = "user"
IsAssistant(m) == m.role = "assistant"

\* setMessages((m) => [...m, msg])
AppendMsg(m, msg) == Append(m, msg)

----------------------------------------------------------------------------
(* Request builder *)

\* mutant: the field assigned without the truthiness test
SetAlways(p, k, v) == (k :> v) @@ p

\* if (v) payload.k = v
SetIf(p, k, v) == IF v # "" THEN (k :> v) @@ p ELSE p

\* mutant: no default query for COST
QueryNoDefault(inp, it) == Trim(inp)

\* const q = input.trim() || (intent === "COST" ? "Cost estimate" : "")
Query(inp, it) ==
    IF Trim(inp) # "" THEN Trim(inp)
    ELSE IF it = "COST" THEN "Cost estimate" ELSE ""

\* const payload = { query: q, state, intent }; COST adds the set form fields
BuildPayload(q, st, it, cty, fips, ag, stg, met, un) ==
    LET base == [query |-> q, state |-> st, intent |-> it]
    IN  IF it = "COST"
        THEN SetIf(SetIf(SetIf(SetIf(SetIf(SetIf(base,
                 "county", cty), "countyFips", fips), "age", ag),
                 "setting", stg), "metric", met), "units", un)
        ELSE base

----------------------------------------------------------------------------
(* Response normalizer *)

ErrorPrefix   == "Sorry--something went wrong.\n\n"
NetworkPrefix == "Network error: "

\* The TypeError raised by reading a property of null or undefined
NullReadError == Obj([message |-> Str("Cannot read properties of null (reading 'answer')")])

\* data.answer || (data.intent === "COST" ? `Estimated ...` : "Here you go:")
AnswerContent(d) ==
    IF Truthy(Get(d, "answer"))
    THEN Get(d, "answer")
    ELSE IF StrictEq(Get(d, "intent"), Str("COST"))
    THEN Str("Estimated childcare prices for "
             \o TemplateStr(OptGet(OptGet(d, "data"), "county"))
             \o ", "
             \o TemplateStr(OptGet(OptGet(d, "data"), "state")))
    ELSE Str("Here you go:")

\* mutant: providers attached without the Array.isArray test
AnswerMsgAnyProviders(d) ==
    [role      |-> "assistant",
     content   |-> AnswerContent(d),
     citations |-> OrElse(Get(d, "citations"), Arr(<<>>)),
     providers |-> Get(d, "providers"),
     data      |-> Coalesce(Get(d, "data"), Undefined)]

\* const msg: Message = { role, content, citations, providers, data }
AnswerMsg(d) ==
    [role      |-> "assistant",
     content   |-> AnswerContent(d),
     citations |-> OrElse(Get(d, "citations"), Arr(<<>>)),
     providers |-> IF IsArray(Get(d, "providers")) THEN Get(d, "providers")
                   ELSE Undefined,
     data      |-> Coalesce(Get(d, "data"), Undefined)]

\* { role: "assistant", content: data.raw }
RawMsg(d) == PlainAssistantMsg(Get(d, "raw"))

\* { role: "assistant", content: `Sorry--something went wrong.\n\n${data.error ?? "Unknown error"}` }
ErrorMsg(d) ==
    PlainAssistantMsg(Str(ErrorPrefix
        \o TemplateStr(Coalesce(Get(d, "error"), Str("Unknown error")))))

\* mutant: the raw test placed before the answer test
NormalizeRawFirst(d) ==
    IF IsNullish(d)
    THEN [thrown |-> TRUE, err |-> NullReadError]
    ELSE IF Truthy(Get(d, "raw"))
    THEN [thrown |-> FALSE, msg |-> RawMsg(d)]
    ELSE IF Truthy(Get(d, "answer")) \/ Truthy(Get(d, "data"))
    THEN [thrown |-> FALSE, msg |-> AnswerMsg(d)]
    ELSE [thrown |-> FALSE, msg |-> ErrorMsg(d)]

\* the if / else if / else of the try block; reading a property of a null
\* body throws a TypeError
Normalize(d) ==
    IF IsNullish(d)
    THEN [thrown |-> TRUE, err |-> NullReadError]
    ELSE IF Truthy(Get(d, "answer")) \/ Truthy(Get(d, "data"))
    THEN [thrown |-> FALSE, msg |-> AnswerMsg(d)]
    ELSE IF Truthy(Get(d, "raw"))
    THEN [thrown |-> FALSE, msg |-> RawMsg(d)]
    ELSE [thrown |-> FALSE, msg |-> ErrorMsg(d)]

\* mutant: the catch block reporting with the Error outcome's text
NetworkMsgAsError(err) ==
    PlainAssistantMsg(Str(ErrorPrefix
        \o TemplateStr(Coalesce(OptGet(err, "message"), err))))

\* catch (err): `Network error: ${err?.message ?? err}`
NetworkMsg(err) ==
    PlainAssistantMsg(Str(NetworkPrefix
        \o TemplateStr(Coalesce(OptGet(err, "message"), err))))

\* the assistant message one settled call produces
Outcome(d) ==
    LET n == Normalize(d) IN IF n.thrown THEN NetworkMsg(n.err) ELSE n.msg

----------------------------------------------------------------------------
(* Rendering: the projections of one message *)

Dash == "--"      \* the em-dash placeholder

\* x.length on a non-nullish value
LengthOf(x) == IF x.t \in {"array", "string"} THEN Num(Len(x.v)) ELSE Get(x, "length")

\* x.length > 0 (undefined > 0 is false)
HasLength(x) == LengthOf(x).t = "number" /\ LengthOf(x).v > 0

\* {x} as a React child: an object that is not an element is rejected
RECURSIVE ChildOk(_)
ChildOk(x) ==
    CASE x.t = "object" -> FALSE
      [] x.t = "array"  -> \A i \in DOMAIN x.v : ChildOk(x.v[i])
      [] OTHER          -> TRUE

\* Array.prototype.join over strings
RECURSIVE Join(_, _)
Join(parts, sep) ==
    IF Len(parts) = 0 THEN ""
    ELSE IF Len(parts) = 1 THEN TemplateStr(parts[1])
    ELSE TemplateStr(parts[1]) \o sep \o Join(Tail(parts), sep)

\* mutant: the address parts joined without .filter(Boolean)
FormatAddrUnfiltered(p) ==
    Join(<<Coalesce(Get(p, "address"), Str("")), Coalesce(Get(p, "city"), Str("")),
           Coalesce(Get(p, "zip"), Str(""))>>, ", ")

\* [p.address, p.city, p.zip].filter(Boolean).join(", ")
FormatAddr(p) ==
    Join(SelectSeq(<<Get(p, "address"), Get(p, "city"), Get(p, "zip")>>, Truthy), ", ")

\* one <tr> of ProvidersTable; reading p.name of a null entry throws
ProviderRow(p) ==
    IF IsNullish(p) THEN [threw |-> TRUE]
    ELSE [threw          |-> ~ChildOk(Get(p, "name")),
          name           |-> Get(p, "name"),
          displayAddress |-> IF FormatAddr(p) # "" THEN FormatAddr(p) ELSE Dash]

\* ProvidersTable: if (!providers?.length) return null; providers.map(...)
ProvidersTable(providers) ==
    IF IsNullish(providers) \/ ~Truthy(LengthOf(providers))
    THEN [threw |-> FALSE, shown |-> FALSE, rows |-> <<>>]
    ELSE IF providers.t # "array"
    THEN [threw |-> TRUE, shown |-> FALSE, rows |-> <<>>]
    ELSE LET rows == [i \in DOMAIN providers.v |-> ProviderRow(providers.v[i])]
         IN  [threw |-> \E i \in DOMAIN rows : rows[i].threw,
              shown |-> TRUE, rows |-> rows]

\* ClarifyingQuestions: if (!questions?.length) return null; <li>{q}</li>
ClarifyingQuestions(questions) ==
    IF IsNullish(questions) \/ ~Truthy(LengthOf(questions))
    THEN [threw |-> FALSE, shown |-> FALSE, items |-> <<>>]
    ELSE [threw |-> \E i \in DOMAIN questions.v : ~ChildOk(questions.v[i]),
          shown |-> TRUE, items |-> questions.v]

IsDigit(c) == c \in {"0", "1", "2", "3", "4", "5", "6", "7", "8", "9"}

DigitValue(c) ==
    CASE c = "0" -> 0 [] c = "1" -> 1 [] c = "2" -> 2 [] c = "3" -> 3 [] c = "4" -> 4
      [] c = "5" -> 5 [] c = "6" -> 6 [] c = "7" -> 7 [] c = "8" -> 8 [] c = "9" -> 9

RECURSIVE AllDigits(_)
AllDigits(s) == Len(s) = 0 \/ (IsDigit(Head(s)) /\ AllDigits(Tail(s)))

RECURSIVE KeyNumber(_, _)
KeyNumber(s, acc) ==
    IF Len(s) = 0 THEN acc ELSE KeyNumber(Tail(s), 10 * acc + DigitValue(Head(s)))

\* a property key that is a canonical array index ("0", "7", "42"; not "07");
\* keys of up to nine digits are told apart, longer ones are not drawn
IsArrayIndex(k) ==
    /\ Len(k) > 0 /\ Len(k) <= 9
    /\ AllDigits(k)
    /\ (Len(k) = 1 \/ Head(k) # "0")

\* ascending numeric order of the array-index keys
RECURSIVE InsertIndexKey(_, _)
InsertIndexKey(sorted, k) ==
    IF sorted = <<>> THEN <<k>>
    ELSE IF KeyNumber(Head(sorted), 0) <= KeyNumber(k, 0)
    THEN <<Head(sorted)>> \o InsertIndexKey(Tail(sorted), k)
    ELSE <<k>> \o sorted

RECURSIVE SortIndexKeys(_)
SortIndexKeys(ks) ==
    IF ks = <<>> THEN <<>>
    ELSE InsertIndexKey(SortIndexKeys(SubSeq(ks, 1, Len(ks) - 1)), ks[Len(ks)])

NotArrayIndex(k) == ~IsArrayIndex(k)

\* Object.entries / OrdinaryOwnPropertyKeys of a plain object: array-index keys
\* first in ascending numeric order, then the other keys in insertion order
OwnKeys(inserted) ==
    SortIndexKeys(SelectSeq(inserted, IsArrayIndex)) \o SelectSeq(inserted, NotArrayIndex)

\* property names that groups = {} inherits from Object.prototype
InheritedKeys ==
    {"constructor", "toString", "toLocaleString", "valueOf", "hasOwnProperty",
     "isPrototypeOf", "propertyIsEnumerable", "__proto__"}

\* for (const a of data.answers) { key = `${a.setting}`; groups[key] = groups[key] || [];
\* groups[key].push(a) }; inserted = the keys in creation order. a.setting of a
\* null entry throws; an inherited groups[key] is truthy and has no push
RECURSIVE GroupAnswers(_, _, _)
GroupAnswers(answers, inserted, groups) ==
    IF answers = <<>> THEN [threw |-> FALSE, inserted |-> inserted, groups |-> groups]
    ELSE LET a == Head(answers) IN
         IF IsNullish(a) THEN [threw |-> TRUE, inserted |-> inserted, groups |-> groups]
         ELSE LET key == TemplateStr(Get(a, "setting")) IN
              IF key \in InheritedKeys
              THEN [threw |-> TRUE, inserted |-> inserted, groups |-> groups]
              ELSE IF key \in DOMAIN groups
              THEN GroupAnswers(Tail(answers), inserted,
                                [groups EXCEPT ![key] = Append(@, a)])
              ELSE GroupAnswers(Tail(answers), Append(inserted, key),
                                (key :> <<a>>) @@ groups)

\* const order = { infant: 1, toddler: 2, preschool: 3 }; order[a.age_group] || 9
AgeOrder(a) ==
    CASE Get(a, "age_group") = Str("infant")    -> 1
      [] Get(a, "age_group") = Str("toddler")   -> 2
      [] Get(a, "age_group") = Str("preschool") -> 3
      [] OTHER                                  -> 9

\* answers.sort((a, b) => order(a) - order(b)): Array.prototype.sort is stable
RECURSIVE InsertByAge(_, _)
InsertByAge(sorted, a) ==
    IF sorted = <<>> THEN <<a>>
    ELSE IF AgeOrder(Head(sorted)) <= AgeOrder(a)
    THEN <<Head(sorted)>> \o InsertByAge(Tail(sorted), a)
    ELSE <<a>> \o sorted

RECURSIVE SortByAge(_)
SortByAge(answers) ==
    IF answers = <<>> THEN <<>>
    ELSE InsertByAge(SortByAge(SubSeq(answers, 1, Len(answers) - 1)),
                     answers[Len(answers)])

\* x ?? "--" as a table cell
Cell(x) == Coalesce(x, Str(Dash))

\* one <tr> of a cost table; a.weekly.median on a missing weekly throws
CostRow(a) ==
    IF IsNullish(Get(a, "weekly")) \/ IsNullish(Get(a, "monthly"))
    THEN [threw |-> TRUE, answer |-> a]
    ELSE [threw  |-> ~(/\ ChildOk(Get(a, "age_group"))
                       /\ ChildOk(Get(Get(a, "weekly"), "median"))
                       /\ ChildOk(Get(Get(a, "weekly"), "p75"))
                       /\ ChildOk(Get(Get(a, "monthly"), "median"))
                       /\ ChildOk(Get(Get(a, "monthly"), "p75"))),
          answer |-> a,
          cells  |-> <<Cell(Get(Get(a, "weekly"), "median")),
                       Cell(Get(Get(a, "weekly"), "p75")),
                       Cell(Get(Get(a, "monthly"), "median")),
                       Cell(Get(Get(a, "monthly"), "p75"))>>]

\* one sub-table: the group's answers sorted, one row each
CostTable(key, answers) ==
    LET sorted == SortByAge(answers)
        rows   == [i \in DOMAIN sorted |-> CostRow(sorted[i])]
    IN  [setting |-> key,
         answers |-> sorted,
         rows    |-> rows,
         threw   |-> \E i \in DOMAIN rows : rows[i].threw]

\* CostResults: if (!data) return null; group, then one table per entry of groups
CostResults(data) ==
    IF ~Truthy(data) THEN [threw |-> FALSE, shown |-> FALSE, tables |-> <<>>]
    ELSE IF Get(data, "answers").t # "array"
    THEN [threw |-> TRUE, shown |-> FALSE, tables |-> <<>>]
    ELSE LET g == GroupAnswers(Get(data, "answers").v, <<>>, <<>>) IN
         IF g.threw THEN [threw |-> TRUE, shown |-> FALSE, tables |-> <<>>]
         ELSE LET keys   == OwnKeys(g.inserted)
                  tables == [i \in DOMAIN keys |-> CostTable(keys[i], g.groups[keys[i]])]
                  notes  == IF IsArray(Get(data, "notes")) THEN Get(data, "notes")
                            ELSE Arr(<<>>)
                  cites  == IF IsArray(Get(data, "citations")) THEN Get(data, "citations")
                            ELSE Arr(<<>>)
              IN  [threw  |-> \/ \E i \in DOMAIN tables : tables[i].threw
                              \/ ~ChildOk(Get(data, "county"))
                              \/ ~ChildOk(Get(data, "county_fips"))
                              \/ ~ChildOk(Get(data, "state"))
                              \/ ~ChildOk(notes) \/ ~ChildOk(cites),
                   shown  |-> TRUE,
                   tables |-> tables]

\* the citations list: m.citations && m.citations.length > 0 && m.citations.map(...)
CitationList(citations) ==
    IF ~(Truthy(citations) /\ HasLength(citations))
    THEN [threw |-> FALSE, shown |-> FALSE]
    ELSE IF citations.t # "array"
    THEN [threw |-> TRUE, shown |-> FALSE]
    ELSE [threw |-> \E i \in DOMAIN citations.v :
                       \/ IsNullish(citations.v[i])
                       \/ ~ChildOk(Get(citations.v[i], "url")),
          shown |-> TRUE]

Nothing == [threw |-> FALSE, shown |-> FALSE, rows |-> <<>>, tables |-> <<>>]

\* the body of messages.map((m, i) => ...) for one message
RenderMessage(m) ==
    LET providers == IF ~IsNullish(m.providers) /\ Truthy(LengthOf(m.providers))
                     THEN ProvidersTable(m.providers) ELSE Nothing
        questions == IF /\ IsArray(OptGet(m.data, "clarifying_questions"))
                        /\ HasLength(OptGet(m.data, "clarifying_questions"))
                     THEN ClarifyingQuestions(Get(m.data, "clarifying_questions"))
                     ELSE Nothing
        cost      == IF /\ Truthy(m.data)
                        /\ Truthy(Get(m.data, "answers"))
                        /\ IsArray(Get(m.data, "answers"))
                     THEN CostResults(m.data) ELSE Nothing
        citations == CitationList(m.citations)
    IN  [threw     |-> \/ ~ChildOk(m.content)
                       \/ providers.threw \/ questions.threw
                       \/ cost.threw \/ citations.threw,
         providers |-> providers,
         questions |-> questions,
         cost      |-> cost,
         citations |-> citations]

----------------------------------------------------------------------------
(* Inputs the environment may supply *)

\* The values the user picks are drawn from these sets: for each field its
\* default and at least one other value the widget offers.
InputTexts  == {"", " ", " hi "}                \* text typed into the input box
Regions     == {"PA", "MA"}                     \* region select
Intents     == {"LOOKUP_RULE", "CHECK_ELIGIBILITY", "COST"}   \* intent select
Counties    == {"", "Allegheny"}                \* county text box
CountyFipsS == {"", "42003"}                    \* county FIPS text box
Ages        == {"", "infant"}                   \* age select ("" = Any age)
Settings    == {"", "family"}                   \* setting select ("" = Any setting)
Metrics     == {"median", "p75"}                \* metric select
UnitsS      == {"weekly", "monthly"}            \* units select

\* a decoded response body
Body(answer, data, raw, error, it, citations, providers) ==
    Obj([answer |-> answer, data |-> data, raw |-> raw, error |-> error,
         intent |-> it, citations |-> citations, providers |-> providers])

CostDataFull  == Obj([county |-> Str("Allegheny"), state |-> Str("PA")])
CostDataBare  == Obj([state |-> Str("PA")])
Citation1     == Obj([title |-> Str("55 Pa. Code"), url |-> Str("https://pa.example/55")])
Provider1     == Obj([name |-> Str("Little Stars"), city |-> Str("Pittsburgh")])

\* every combination of the fields the normalizer reads, plus a JSON null body
AllBodies ==
    { Body(a, d, r, e, i, c, p) :
        a \in {Undefined, Null, Str(""), Str("Ratios are 1:4.")},
        d \in {Undefined, Null, CostDataFull, CostDataBare},
        r \in {Undefined, Str(""), Str("raw text")},
        e \in {Undefined, Null, Str("backend down")},
        i \in {Undefined, Str("COST"), Str("LOOKUP_RULE")},
        c \in {Undefined, Null, Arr(<<>>), Arr(<<Citation1>>)},
        p \in {Undefined, Null, Str("n/a"), Arr(<<Provider1>>)} }
    \cup {Null}

\* one body per outcome, for runs with several round trips
FewBodies ==
    { Body(Str("Ratios are 1:4."), Undefined, Undefined, Undefined, Undefined,
           Arr(<<Citation1>>), Undefined),
      Body(Undefined, Undefined, Str("raw text"), Undefined, Undefined, Undefined, Undefined),
      Body(Undefined, Undefined, Undefined, Str("backend down"), Undefined, Undefined,
           Undefined) }

\* all sequences over S of length at most n
SeqsUpTo(S, n) == UNION { [1..k -> S] : k \in 0..n }

\* a CostAnswer
Answer(ag, st) ==
    Obj([age_group |-> Str(ag), setting |-> Str(st),
         weekly  |-> Obj([median |-> Num(250), p75 |-> Null]),
         monthly |-> Obj([median |-> Num(1083), p75 |-> Null])])

AgeGroups    == {"infant", "toddler", "preschool", "school-age", "mixed"}
CostSettings == {"center", "family", "1"}
Answers      == { Answer(ag, st) : ag \in AgeGroups, st \in CostSettings }

\* a CostData payload around an answers value
CostData(answers) ==
    Obj([state |-> Str("PA"), county_fips |-> Str("42003"), county |-> Str("Allegheny"),
         answers |-> answers, notes |-> Arr(<<Str("NDCP 2022")>>),
         citations |-> Arr(<<>>)])

\* a COST reply: no answer text, the payload under data
CostBody(answers) ==
    Body(Undefined, CostData(answers), Undefined, Undefined, Str("COST"), Undefined,
         Undefined)

\* every answers sequence up to the bound, and one whose setting names a
\* property that every object inherits
CostBodies ==
    { CostBody(Arr(as)) : as \in SeqsUpTo(Answers, MaxAnswers) }
    \cup {CostBody(Arr(<<Answer("infant", "constructor")>>))}

\* a Provider: address, city and zip each null, empty or filled in
Provider(address, city, zip) ==
    Obj([name |-> Str("Little Stars"), address |-> address, city |-> city, zip |-> zip])

Providers ==
    { Provider(a, c, z) : a \in {Null, Str(""), Str("12 Main St")},
                          c \in {Null, Str(""), Str("Pittsburgh")},
                          z \in {Null, Str(""), Str("15213")} }
    \cup {Obj([name |-> Str("Little Stars")]), Provider1}

\* a reply with an answer text and a providers array
ProviderBody(providers) ==
    Body(Str("Providers near you:"), Undefined, Undefined, Undefined, Undefined, Undefined,
         providers)

ProviderBodies == { ProviderBody(Arr(ps)) : ps \in SeqsUpTo(Providers, MaxProviders) }

Question1 == Str("How many children are in the household?")

\* replies whose fields are missing or of the wrong type
MalformedBodies ==
    { Null,
      Str("Bad Gateway"),
      CostBody(Arr(<<Null>>)),
      CostBody(Arr(<<Obj([age_group |-> Str("infant"), setting |-> Str("center")])>>)),
      CostBody(Arr(<<Obj([age_group |-> Str("infant"), setting |-> Str("center"),
                          weekly |-> Obj([median |-> Num(250)])])>>)),
      CostBody(Arr(<<Obj([weekly  |-> Obj([median |-> Num(250)]),
                          monthly |-> Obj([p75 |-> Num(1200)])])>>)),
      CostBody(Str("n/a")),
      CostBody(Obj([infant |-> Num(250)])),
      Body(Undefined, Obj([clarifying_questions |-> Arr(<<Null, Question1>>)]), Undefined,
           Undefined, Str("CHECK_ELIGIBILITY"), Undefined, Undefined),
      Body(Undefined, Obj([clarifying_questions |-> Question1]), Undefined,
           Undefined, Str("CHECK_ELIGIBILITY"), Undefined, Undefined),
      Body(Str("Ratios are 1:4."), Undefined, Undefined, Undefined, Undefined,
           Str("55 Pa. Code"), Undefined),
      Body(Str("Ratios are 1:4."), Undefined, Undefined, Undefined, Undefined,
           Obj([title |-> Str("55 Pa. Code")]), Undefined),
      Body(Str("Ratios are 1:4."), Undefined, Undefined, Undefined, Undefined,
           Arr(<<Null>>), Undefined),
      Body(Str("Ratios are 1:4."), Str("PA"), Undefined, Undefined, Undefined,
           Arr(<<Citation1>>), Undefined),
      ProviderBody(Arr(<<Null>>)),
      ProviderBody(Arr(<<Obj([city |-> Str("Pittsburgh")])>>)),
      ProviderBody(Str("n/a")),
      ProviderBody(Obj([name |-> Str("Little Stars")])),
      Body(Obj([text |-> Str("Ratios are 1:4.")]), Undefined, Undefined, Undefined,
           Undefined, Undefined, Undefined),
      Body(Undefined, Undefined, Undefined, Undefined, Undefined, Undefined, Undefined) }

\* failures of fetch() and of res.json()
FetchErrors == {Obj([message |-> Str("Failed to fetch")])}
JsonErrors  == {Obj([message |-> Str("Unexpected token < in JSON at position 0")])}

----------------------------------------------------------------------------
(* CostEstimator: the stand-alone estimate form *)

AGES     == {"infant", "toddler", "preschool", "school-age", "mixed"}
SETTINGS == {"center", "family"}
METRICS  == {"median", "p75"}
UNITS    == {"monthly", "weekly"}

\* what the user may type into the state and county boxes
StateTexts  == {"pa", "MA"}
CountyTexts == {"", "Allegheny"}

UpperChar(c) ==
    CASE c = "p" -> "P" [] c = "a" -> "A" [] c = "m" -> "M" [] OTHER -> c

\* String.prototype.toUpperCase
RECURSIVE ToUpperCase(_)
ToUpperCase(s) ==
    IF Len(s) = 0 THEN "" ELSE UpperChar(Head(s)) \o ToUpperCase(Tail(s))

\* no call of the latest submission has settled yet
NotSettled == [how |-> "none", ok |-> FALSE, val |-> Null]

\* the useState defaults; step is the handler or continuation that ran last,
\* last how the call of the latest submission settled
EstimatorInit ==
    [state |-> "PA", county |-> "", age |-> "infant", setting |-> "center",
     metric |-> "median", units |-> "monthly",
     loading |-> FALSE, resp |-> Null, error |-> Null,
     inflight |-> {}, step |-> "", last |-> NotSettled]

\* everything Home owns
homeVars == <<input, state, intent, messages, loading, county, countyFips, age,
              setting, metric, units, pending, nsent, arrived, handler, edits>>

\* JSON.stringify({ state, county: county || undefined, age_group: age, ... }):
\* an undefined member is left out
EstPayload(e) ==
    IF e.county # ""
    THEN [state |-> e.state, county |-> e.county, age_group |-> e.age,
          setting |-> e.setting, metric |-> e.metric, units |-> e.units]
    ELSE [state |-> e.state, age_group |-> e.age,
          setting |-> e.setting, metric |-> e.metric, units |-> e.units]

EstEdit(e) ==
    /\ estimator' = [e EXCEPT !.step = "onChange"]
    /\ UNCHANGED homeVars

\* onChange of each control
EstSetState(v)   == EstEdit([estimator EXCEPT !.state = ToUpperCase(v)])
EstSetCounty(v)  == EstEdit([estimator EXCEPT !.county = v])
EstSetAge(v)     == EstEdit([estimator EXCEPT !.age = v])
EstSetSetting(v) == EstEdit([estimator EXCEPT !.setting = v])
EstSetMetric(v)  == EstEdit([estimator EXCEPT !.metric = v])
EstSetUnits(v)   == EstEdit([estimator EXCEPT !.units = v])

\* mutant: onSubmit without setResp(null)
ClearRespMissing(r) == r

\* setResp(null)
ClearResp(r) == Null

\* onSubmit up to the first await; the submit button is disabled while loading
onSubmit ==
    /\ ~estimator.loading
    /\ estimator' = [estimator EXCEPT !.loading = TRUE,
                                      !.error = Null,
                                      !.resp = ClearResp(@),
                                      !.inflight = @ \cup {EstPayload(estimator)},
                                      !.step = "onSubmit",
                                      !.last = NotSettled]
    /\ UNCHANGED homeVars

\* new Error(x): the message is String(x)
NewError(x) == Obj([name |-> Str("Error"), message |-> Str(TemplateStr(x))])

\* the TypeError of reading property k of null
NullRead(k) ==
    Obj([name |-> Str("TypeError"),
         message |-> Str("Cannot read properties of null (reading '" \o k \o "')")])

\* String(e) of an Error: its name, and its message when it has one
StringOfError(e) ==
    IF Get(e, "message") = Str("") THEN Get(e, "name")
    ELSE Str(Get(e, "name").v \o ": " \o Get(e, "message").v)

\* e.message || String(e)
ErrorText(e) == OrElse(Get(e, "message"), StringOfError(e))

\* if (!r.ok || j.ok === false) throw new Error(j.error || "Request failed")
EstTry(ok, j) ==
    IF ~ok
    THEN [thrown |-> TRUE,
          err |-> IF IsNullish(j) THEN NullRead("error")
                  ELSE NewError(OrElse(Get(j, "error"), Str("Request failed")))]
    ELSE IF IsNullish(j) THEN [thrown |-> TRUE, err |-> NullRead("ok")]
    ELSE IF StrictEq(Get(j, "ok"), Bool(FALSE))
    THEN [thrown |-> TRUE,
          err |-> NewError(OrElse(Get(j, "error"), Str("Request failed")))]
    ELSE [thrown |-> FALSE, err |-> Null]

\* the rest of onSubmit once the call settles: setResp(j) or catch { setError },
\* then finally { setLoading(false) }
EstSettle(call, how, ok, val, out) ==
    /\ estimator' = [estimator EXCEPT
                        !.resp = IF out.thrown THEN @ ELSE val,
                        !.error = IF out.thrown THEN ErrorText(out.err) ELSE @,
                        !.loading = FALSE,
                        !.inflight = @ \ {call},
                        !.step = "settle",
                        !.last = [how |-> how, ok |-> ok, val |-> val]]
    /\ UNCHANGED homeVars

\* fetch resolved with status ok or not, and r.json() decoded j
EstRespond(call, ok, j) == EstSettle(call, "decoded", ok, j, EstTry(ok, j))

\* fetch rejected
EstFetchRejects(call, e) ==
    EstSettle(call, "fetchRejected", FALSE, e, [thrown |-> TRUE, err |-> e])

\* fetch resolved but r.json() rejected
EstJsonRejects(call, ok, e) ==
    EstSettle(call, "jsonRejected", ok, e, [thrown |-> TRUE, err |-> e])

EstResult == Obj([primary_value |-> Num(1083)])

\* bodies of /api/cost: { ok, message?, error?, result }
EstBodies ==
    { Obj([ok |-> Bool(TRUE), message |-> Str("$1,083 per month"), result |-> EstResult]),
      Obj([message |-> Str("$1,083 per month"), result |-> EstResult]),
      Obj([ok |-> Bool(FALSE), error |-> Str("Unknown county")]),
      Obj([ok |-> Bool(FALSE), error |-> Str("")]),
      Obj([ok |-> Bool(FALSE), error |-> Null]),
      Obj([ok |-> Bool(FALSE)]),
      Obj([error |-> Str("Internal Server Error")]),
      Null }

EstFetchErrors == {Obj([name |-> Str("TypeError"), message |-> Str("Failed to fetch")])}
EstJsonErrors  ==
    {Obj([name |-> Str("SyntaxError"),
          message |-> Str("Unexpected token < in JSON at position 0")])}

----------------------------------------------------------------------------
(* Initial state: the useState defaults *)

Init ==
    /\ input = ""
    /\ state = "PA"
    /\ intent = "LOOKUP_RULE"
    /\ messages = <<>>
    /\ loading = FALSE
    /\ county = ""
    /\ countyFips = ""
    /\ age = ""
    /\ setting = ""
    /\ metric = "median"
    /\ units = "weekly"
    /\ pending = {}
    /\ nsent = 0
    /\ arrived = <<>>
    /\ handler = ""
    /\ edits = 0
    /\ estimator = EstimatorInit

----------------------------------------------------------------------------
(* Form and selector edits *)

Edit ==
    /\ edits < MaxEdits
    /\ edits' = edits + 1
    /\ handler' = "onChange"
    /\ UNCHANGED <<loading, pending, nsent, arrived, estimator>>

\* mutant: the effect with setMessages([]) commented in
IntentEffectClears(m) == <<>>

\* useEffect(() => { /* setMessages([]) is commented out */ }, [intent])
IntentEffect(m) == m

\* onChange of the text input: setInput(e.target.value)
SetInput(v) ==
    /\ v # input
    /\ Edit
    /\ input' = v
    /\ UNCHANGED <<state, intent, formVars, messages>>

\* onChange of the region select: setState(e.target.value)
SetState(v) ==
    /\ v # state
    /\ Edit
    /\ state' = v
    /\ UNCHANGED <<input, intent, formVars, messages>>

\* onChange of the intent select: setIntent(e.target.value), then the effect
\* that depends on [intent] runs
SetIntent(v) ==
    /\ v # intent
    /\ Edit
    /\ intent' = v
    /\ messages' = IntentEffect(messages)
    /\ UNCHANGED <<input, state, formVars>>

\* the cost form is rendered only while intent === "COST"
SetCounty(v) ==
    /\ intent = "COST" /\ v # county
    /\ Edit
    /\ county' = v
    /\ UNCHANGED <<input, state, intent, messages, countyFips, age, setting, metric, units>>

SetCountyFips(v) ==
    /\ intent = "COST" /\ v # countyFips
    /\ Edit
    /\ countyFips' = v
    /\ UNCHANGED <<input, state, intent, messages, county, age, setting, metric, units>>

SetAge(v) ==
    /\ intent = "COST" /\ v # age
    /\ Edit
    /\ age' = v
    /\ UNCHANGED <<input, state, intent, messages, county, countyFips, setting, metric, units>>

SetSetting(v) ==
    /\ intent = "COST" /\ v # setting
    /\ Edit
    /\ setting' = v
    /\ UNCHANGED <<input, state, intent, messages, county, countyFips, age, metric, units>>

SetMetric(v) ==
    /\ intent = "COST" /\ v # metric
    /\ Edit
    /\ metric' = v
    /\ UNCHANGED <<input, state, intent, messages, county, countyFips, age, setting, units>>

SetUnits(v) ==
    /\ intent = "COST" /\ v # units
    /\ Edit
    /\ units' = v
    /\ UNCHANGED <<input, state, intent, messages, county, countyFips, age, setting, metric>>

----------------------------------------------------------------------------
(* send(), up to its first await *)

\* mutant: the early return missing
NeverRefused(q) == FALSE

\* if (!q) return
Refused(q) == q = ""

send ==
    LET q == Query(input, intent) IN
    IF Refused(q)
    THEN UNCHANGED <<input, messages, loading, pending, nsent>>
    ELSE /\ nsent < MaxSends
         /\ loading' = TRUE
         /\ messages' = AppendMsg(messages, UserMsg(q))
         /\ input' = ""
         /\ pending' = pending \cup
                {[id |-> nsent + 1,
                  payload |-> BuildPayload(q, state, intent, county, countyFips,
                                           age, setting, metric, units)]}
         /\ nsent' = nsent + 1

\* <button disabled={loading || (!input.trim() && intent !== "COST")}>
ButtonDisabled == loading \/ (Trim(input) = "" /\ intent # "COST")

\* onClick={send}
onClick ==
    /\ ~ButtonDisabled
    /\ send
    /\ handler' = "onClick"
    /\ UNCHANGED <<state, intent, formVars, arrived, edits, estimator>>

\* onKeyDown with Enter and no Shift: send()
onKeyDown ==
    /\ send
    /\ handler' = "onKeyDown"
    /\ UNCHANGED <<state, intent, formVars, arrived, edits, estimator>>

----------------------------------------------------------------------------
(* send(), after the await: try / catch / finally *)

\* mutant: no finally block, loading keeps its value
FinallyMissing(l) == l

\* finally { setLoading(false) }
Finally(l) == FALSE

\* mutant: a reply is dropped while another call is still pending
SettleLatestOnly(r, how, val, msg) ==
    /\ messages' = IF pending = {r} THEN AppendMsg(messages, msg) ELSE messages
    /\ loading' = Finally(loading)
    /\ pending' = pending \ {r}
    /\ arrived' = Append(arrived, [id |-> r.id, how |-> how, val |-> val, msg |-> msg])
    /\ handler' = "settle"
    /\ UNCHANGED <<uiVars, nsent, edits, estimator>>

\* the continuation of call r: how is what settled ("decoded", "fetchRejected",
\* "jsonRejected"), val the decoded body or the rejection, msg the message built
Settle(r, how, val, msg) ==
    /\ messages' = AppendMsg(messages, msg)
    /\ loading' = Finally(loading)
    /\ pending' = pending \ {r}
    /\ arrived' = Append(arrived, [id |-> r.id, how |-> how, val |-> val, msg |-> msg])
    /\ handler' = "settle"
    /\ UNCHANGED <<uiVars, nsent, edits, estimator>>

\* fetch resolved and res.json() decoded d
Respond(r, d) == Settle(r, "decoded", d, Outcome(d))

\* mutant: a rejection that is not caught leaves no assistant message
FetchRejectsUncaught(r, err) ==
    /\ loading' = Finally(loading)
    /\ pending' = pending \ {r}
    /\ handler' = "settle"
    /\ UNCHANGED <<uiVars, messages, arrived, nsent, edits, estimator>>

\* fetch rejected
FetchRejects(r, err) == Settle(r, "fetchRejected", err, NetworkMsg(err))

\* fetch resolved but res.json() rejected
JsonRejects(r, err) == Settle(r, "jsonRejected", err, NetworkMsg(err))

----------------------------------------------------------------------------
(* Specifications *)

Next ==
    \/ \E v \in InputTexts : SetInput(v)
    \/ \E v \in Regions : SetState(v)
    \/ \E v \in Intents : SetIntent(v)
    \/ \E v \in Counties : SetCounty(v)
    \/ \E v \in CountyFipsS : SetCountyFips(v)
    \/ \E v \in Ages : SetAge(v)
    \/ \E v \in Settings : SetSetting(v)
    \/ \E v \in Metrics : SetMetric(v)
    \/ \E v \in UnitsS : SetUnits(v)
    \/ onClick
    \/ onKeyDown
    \/ \E r \in pending, d \in FewBodies : Respond(r, d)
    \/ \E r \in pending, e \in FetchErrors : FetchRejects(r, e)
    \/ \E r \in pending, e \in JsonErrors : JsonRejects(r, e)

Spec == Init /\ [][Next]_vars

\* a pending call either resolves or rejects
SettleSome ==
    \E r \in pending :
        \/ \E d \in FewBodies : Respond(r, d)
        \/ \E e \in FetchErrors : FetchRejects(r, e)
        \/ \E e \in JsonErrors : JsonRejects(r, e)

\* The conversation alone (text, intent, sends, settlements), every pending
\* call settling
FairNext ==
    \/ \E v \in InputTexts : SetInput(v)
    \/ \E v \in Intents : SetIntent(v)
    \/ onClick
    \/ onKeyDown
    \/ \E r \in pending, d \in FewBodies : Respond(r, d)
    \/ \E r \in pending, e \in FetchErrors : FetchRejects(r, e)
    \/ \E r \in pending, e \in JsonErrors : JsonRejects(r, e)

FairSpec == Init /\ [][FairNext]_vars /\ WF_vars(SettleSome)

\* One round trip, every response shape
NormNext ==
    \/ \E v \in InputTexts : SetInput(v)
    \/ \E v \in Intents : SetIntent(v)
    \/ (nsent = 0 /\ onKeyDown)
    \/ \E r \in pending, d \in AllBodies : Respond(r, d)
    \/ \E r \in pending, e \in FetchErrors : FetchRejects(r, e)
    \/ \E r \in pending, e \in JsonErrors : JsonRejects(r, e)

NormSpec == Init /\ [][NormNext]_vars

\* One round trip from every setting of the selectors and the cost form
BuildInit ==
    /\ input \in InputTexts
    /\ state \in Regions
    /\ intent \in Intents
    /\ county \in Counties
    /\ countyFips \in CountyFipsS
    /\ age \in Ages
    /\ setting \in Settings
    /\ metric \in Metrics
    /\ units \in UnitsS
    /\ messages = <<>>
    /\ loading = FALSE
    /\ pending = {}
    /\ nsent = 0
    /\ arrived = <<>>
    /\ handler = ""
    /\ edits = 0
    /\ estimator = EstimatorInit

BuildNext ==
    \/ (nsent = 0 /\ onClick)
    \/ (nsent = 0 /\ onKeyDown)
    \/ \E r \in pending, d \in FewBodies : Respond(r, d)
    \/ \E r \in pending, e \in FetchErrors : FetchRejects(r, e)
    \/ \E r \in pending, e \in JsonErrors : JsonRejects(r, e)

BuildSpec == BuildInit /\ [][BuildNext]_vars

\* the replies whose projections are rendered
ProjBodies == CostBodies \cup ProviderBodies \cup MalformedBodies

\* One round trip of a typed question, answered by every reply in ProjBodies
ProjInit ==
    /\ input = " hi "
    /\ state = "PA"
    /\ intent = "LOOKUP_RULE"
    /\ county = ""
    /\ countyFips = ""
    /\ age = ""
    /\ setting = ""
    /\ metric = "median"
    /\ units = "weekly"
    /\ messages = <<>>
    /\ loading = FALSE
    /\ pending = {}
    /\ nsent = 0
    /\ arrived = <<>>
    /\ handler = ""
    /\ edits = 0
    /\ estimator = EstimatorInit

ProjNext ==
    \/ (nsent = 0 /\ onKeyDown)
    \/ \E r \in pending, d \in ProjBodies : Respond(r, d)

ProjSpec == ProjInit /\ [][ProjNext]_vars

\* The CostEstimator component on its own
EstNext ==
    \/ \E v \in StateTexts : EstSetState(v)
    \/ \E v \in CountyTexts : EstSetCounty(v)
    \/ \E v \in AGES : EstSetAge(v)
    \/ \E v \in SETTINGS : EstSetSetting(v)
    \/ \E v \in METRICS : EstSetMetric(v)
    \/ \E v \in UNITS : EstSetUnits(v)
    \/ onSubmit
    \/ \E c \in estimator.inflight, ok \in BOOLEAN, j \in EstBodies : EstRespond(c, ok, j)
    \/ \E c \in estimator.inflight, e \in EstFetchErrors : EstFetchRejects(c, e)
    \/ \E c \in estimator.inflight, ok \in BOOLEAN, e \in EstJsonErrors :
          EstJsonRejects(c, ok, e)

EstSpec == Init /\ [][EstNext]_vars

----------------------------------------------------------------------------
(* Vocabulary of the properties *)

IsPrefix(a, b) == Len(a) <= Len(b) /\ SubSeq(b, 1, Len(a)) = a

StartsWith(s, pre) == Len(pre) <= Len(s) /\ SubSeq(s, 1, Len(pre)) = pre

Contains(s, sub) ==
    \E i \in 1..(Len(s) - Len(sub) + 1) : SubSeq(s, i, i + Len(sub) - 1) = sub

Users      == SelectSeq(messages, IsUser)
Assistants == SelectSeq(messages, IsAssistant)

NoAttachments(m) ==
    m.citations = Undefined /\ m.providers = Undefined /\ m.data = Undefined

SendHandlers == {"onClick", "onKeyDown"}

----------------------------------------------------------------------------
(* C1 *)

\* C1: the message log is append-only: across every step (send, settlement in
\* any outcome, form edit, intent change) the log before the step is a prefix
\* of the log after it.
C1_AppendOnly == [][IsPrefix(messages, messages')]_vars

\* a log of two round trips survived an intent change
C1_Witness ==
    /\ Len(messages) = 4
    /\ intent # "LOOKUP_RULE"
    /\ handler = "onChange"

----------------------------------------------------------------------------
(* C2 *)

C2_Counts ==
    /\ Len(Assistants) <= Len(Users)
    /\ pending = {} => Len(Assistants) = Len(Users)

C2_Step ==
    \* a send that passes validation appends the user message while its call is pending
    /\ nsent' # nsent =>
          /\ Len(messages') = Len(messages) + 1
          /\ IsPrefix(messages, messages')
          /\ IsUser(messages'[Len(messages')])
          /\ \E r \in pending' \ pending : r.id = nsent'
    \* a settlement appends exactly one assistant message
    /\ arrived' # arrived =>
          /\ Len(messages') = Len(messages) + 1
          /\ IsPrefix(messages, messages')
          /\ IsAssistant(messages'[Len(messages')])
          /\ Users' = Users
    \* a transport failure appends the Network message and nothing else
    /\ (arrived' # arrived /\ arrived'[Len(arrived')].how # "decoded") =>
          StartsWith(messages'[Len(messages')].content.v, NetworkPrefix)
    \* nothing else appends
    /\ (nsent' = nsent /\ arrived' = arrived) => messages' = messages

\* C2: every accepted send appends the user message before its call settles
\* and exactly one assistant message when it settles (the Network message on a
\* transport failure, the user message staying); so assistant messages never
\* outnumber user messages and the counts agree whenever nothing is pending.
C2_TwoPerRoundTrip == []C2_Counts /\ [][C2_Step]_vars

\* a round trip that ended in a transport failure
C2_Witness ==
    /\ pending = {}
    /\ Len(arrived) = 1
    /\ arrived[1].how = "fetchRejected"
    /\ Len(messages) = 2

----------------------------------------------------------------------------
(* C3 *)

\* settled calls whose body decoded to a JSON object
Decoded == {i \in DOMAIN arrived : arrived[i].how = "decoded" /\ arrived[i].val.t = "object"}

AnswerCase(d) == Truthy(Get(d, "answer")) \/ Truthy(Get(d, "data"))

\* the three shapes of a normalized message
AnswerShape(m)   == m.citations # Undefined
RawShape(m, d)   == m.content = Get(d, "raw") /\ NoAttachments(m)
ErrorShape(m)    == m.content.t = "string" /\ StartsWith(m.content.v, ErrorPrefix)
                    /\ NoAttachments(m)

ErrorTextOk(m, d) ==
    /\ ErrorShape(m)
    /\ Get(d, "error").t = "string" => Contains(m.content.v, Get(d, "error").v)
    /\ Get(d, "error") = Undefined => Contains(m.content.v, "Unknown error")

\* C3 as stated: Answer if answer is non-empty or data truthy; otherwise Raw
\* whenever raw is set; otherwise Error with the error string or "Unknown error".
C3_AsStated ==
    \A i \in Decoded :
        LET d == arrived[i].val
            m == arrived[i].msg
        IN  IF AnswerCase(d) THEN AnswerShape(m) /\ ~ErrorShape(m)
            ELSE IF Get(d, "raw") # Undefined THEN RawShape(m, d)
            ELSE ErrorTextOk(m, d)

\* C3 (amended): the priority is Answer > Raw > Error with raw tested for
\* truthiness: Answer if answer is non-empty or data truthy (whatever raw and
\* error are); otherwise, if raw is non-empty, the content is exactly raw with
\* no citations, providers or data; otherwise (an empty raw included) the
\* content carries the error string when present and "Unknown error" when it
\* is absent or null. Each response yields exactly one of the three.
C3_Priority ==
    /\ Len(Assistants) = Len(arrived)
    /\ \A i \in Decoded :
        LET d == arrived[i].val
            m == arrived[i].msg
        IN  /\ Assistants[i] = m
            /\ IF AnswerCase(d) THEN AnswerShape(m) /\ ~ErrorShape(m)
               ELSE IF Truthy(Get(d, "raw")) THEN RawShape(m, d) /\ ~AnswerShape(m)
               ELSE /\ ErrorTextOk(m, d) /\ ~AnswerShape(m)
                    /\ Get(d, "error") = Null => Contains(m.content.v, "Unknown error")

\* a body carrying answer, raw and error at once was classified
C3_Witness ==
    \E i \in Decoded :
        /\ Truthy(Get(arrived[i].val, "answer"))
        /\ Truthy(Get(arrived[i].val, "raw"))
        /\ Truthy(Get(arrived[i].val, "error"))

----------------------------------------------------------------------------
(* C4 *)

ExpectedContent(d) ==
    IF Get(d, "answer").t = "string" /\ Get(d, "answer").v # ""
    THEN Get(d, "answer")
    ELSE IF Get(d, "intent") = Str("COST")
    THEN Str("Estimated childcare prices for "
             \o TemplateStr(Get(Get(d, "data"), "county")) \o ", "
             \o TemplateStr(Get(Get(d, "data"), "state")))
    ELSE Str("Here you go:")

\* C4 as stated: citations default to empty only when absent, data is copied unchanged
C4_AsStated ==
    \A i \in Decoded :
        LET d == arrived[i].val
            m == arrived[i].msg
        IN  AnswerCase(d) =>
              /\ m.content = ExpectedContent(d)
              /\ m.citations = IF Get(d, "citations") = Undefined THEN Arr(<<>>)
                               ELSE Get(d, "citations")
              /\ m.providers = IF Get(d, "providers").t = "array"
                               THEN Get(d, "providers") ELSE Undefined
              /\ m.data = Get(d, "data")

\* C4 (amended): in the Answer outcome the content is answer when non-empty,
\* else the synthesized sentence when the response's intent is COST, else
\* "Here you go:"; the citations are the response's citations, or the empty
\* sequence when they are absent, null or otherwise falsy; the providers are
\* set only if the response's providers is an array; the data is the
\* response's data, except that a null data is stored as absent.
C4_AnswerFields ==
    \A i \in Decoded :
        LET d == arrived[i].val
            m == arrived[i].msg
        IN  AnswerCase(d) =>
              /\ m.role = "assistant"
              /\ m.content = ExpectedContent(d)
              /\ m.citations = IF Get(d, "citations") \in {Undefined, Null, Str("")}
                               THEN Arr(<<>>) ELSE Get(d, "citations")
              /\ m.providers = IF Get(d, "providers").t = "array"
                               THEN Get(d, "providers") ELSE Undefined
              /\ m.data = IF Get(d, "data") = Null THEN Undefined ELSE Get(d, "data")

\* an answer-less COST response with data and a non-array providers field
C4_Witness ==
    \E i \in Decoded :
        /\ ~Truthy(Get(arrived[i].val, "answer"))
        /\ Get(arrived[i].val, "intent") = Str("COST")
        /\ Get(arrived[i].val, "providers") = Str("n/a")
        /\ arrived[i].msg.content
             = Str("Estimated childcare prices for Allegheny, PA")

----------------------------------------------------------------------------
(* C5 *)

Failed == {i \in DOMAIN arrived : arrived[i].how \in {"fetchRejected", "jsonRejected"}}

\* C5: a transport failure (fetch rejects or decoding fails) yields exactly one
\* assistant message, "Network error: " followed by the failure's description,
\* with no citations, providers or data, and never the Error outcome's text.
C5_NetworkOutcome ==
    /\ Len(Assistants) = Len(arrived)
    /\ \A i \in Failed :
        LET m == arrived[i].msg
        IN  /\ Assistants[i] = m
            /\ m.content = Str(NetworkPrefix \o arrived[i].val.v.message.v)
            /\ NoAttachments(m)
            /\ ~StartsWith(m.content.v, ErrorPrefix)
            /\ ~Contains(m.content.v, "Unknown error")

\* both kinds of transport failure have happened
C5_Witness ==
    /\ \E i \in Failed : arrived[i].how = "fetchRejected"
    /\ \E i \in Failed : arrived[i].how = "jsonRejected"

----------------------------------------------------------------------------
(* C6 *)

\* C6: a send() with empty or whitespace-only text and an intent other than
\* COST, from the button or from the Enter key, builds no request, issues no
\* call and changes nothing: no message, loading not set, input not cleared.
C6_Refusal ==
    [][(handler' \in SendHandlers /\ Trim(input) = "" /\ intent # "COST") =>
          UNCHANGED <<input, state, intent, messages, loading, formVars,
                      pending, nsent, arrived>>]_vars

\* Enter was pressed on a whitespace-only input outside COST
C6_Witness ==
    /\ handler = "onKeyDown"
    /\ input = " "
    /\ intent # "COST"

----------------------------------------------------------------------------
(* C7 *)

FormKeys == {"county", "countyFips", "age", "setting", "metric", "units"}

FormValue(k) ==
    CASE k = "county"     -> county
      [] k = "countyFips" -> countyFips
      [] k = "age"        -> age
      [] k = "setting"    -> setting
      [] k = "metric"     -> metric
      [] k = "units"      -> units

\* C7: with intent COST the payload holds a structured field exactly when the
\* user set it to a non-empty value, with the value as entered; nothing is sent
\* as an empty string; county and county FIPS, when both set, both go out.
C7_SparsePayload ==
    \A r \in pending :
        r.payload.intent = "COST" =>
            /\ \A k \in FormKeys :
                  /\ (k \in DOMAIN r.payload) <=> (FormValue(k) # "")
                  /\ (k \in DOMAIN r.payload) => r.payload[k] = FormValue(k)
            /\ \A k \in DOMAIN r.payload : r.payload[k] # ""
            /\ DOMAIN r.payload \subseteq FormKeys \cup {"query", "state", "intent"}

\* a COST request with county and FIPS set, age and setting unset
C7_Witness ==
    \E r \in pending :
        /\ r.payload.intent = "COST"
        /\ county = "Allegheny" /\ countyFips = "42003"
        /\ age = "" /\ setting = "family"
        /\ {"county", "countyFips", "setting"} \subseteq DOMAIN r.payload
        /\ "age" \notin DOMAIN r.payload

----------------------------------------------------------------------------
(* C8 *)

C8_Step ==
    (handler' \in SendHandlers /\ Trim(input) = "" /\ intent = "COST") =>
        /\ messages' = Append(messages, UserMsg("Cost estimate"))
        /\ \E r \in pending' \ pending : r.payload.query = "Cost estimate"

C8_Log ==
    (nsent = 1 /\ pending = {} /\ messages[1].content = Str("Cost estimate")) =>
        /\ Len(messages) = 2
        /\ messages[1] = UserMsg("Cost estimate")
        /\ IsAssistant(messages[2])

\* C8: a send() with intent COST and empty text is not refused: the query
\* "Cost estimate" is both the user message's content and the payload's query,
\* and from an empty log the round trip leaves exactly that user message
\* followed by exactly one assistant message.
C8_DefaultQuery == []C8_Log /\ [][C8_Step]_vars

\* the first round trip was a COST send with no text
C8_Witness ==
    /\ nsent = 1 /\ pending = {}
    /\ Len(messages) = 2
    /\ messages[1] = UserMsg("Cost estimate")
    /\ IsAssistant(messages[2])

----------------------------------------------------------------------------
(* C9 *)

PendingIds == {r.id : r \in pending}
ArrivedIds == {arrived[i].id : i \in DOMAIN arrived}

\* C9: send() does not test loading, so calls overlap; user messages stand in
\* submission order, assistant messages in settlement order (which may be the
\* reverse of submission order), and every call accounts for exactly one user
\* and at most one assistant message.
C9_Interleaving ==
    /\ Len(Users) = nsent
    /\ \A r \in pending : Users[r.id].content = Str(r.payload.query)
    /\ Len(Assistants) = Len(arrived)
    /\ \A i \in DOMAIN arrived : Assistants[i] = arrived[i].msg
    /\ \A i, j \in DOMAIN arrived : arrived[i].id = arrived[j].id => i = j
    /\ PendingIds \cap ArrivedIds = {}
    /\ PendingIds \cup ArrivedIds = 1..nsent
    /\ Cardinality(pending) = Cardinality(PendingIds)
    /\ Len(messages) = nsent + Len(arrived)

\* two calls overlapped and settled in the reverse of submission order
C9_Witness ==
    /\ Len(arrived) = 2
    /\ arrived[1].id = 2 /\ arrived[2].id = 1
    /\ IsUser(messages[1]) /\ IsUser(messages[2])
    /\ messages[3] = arrived[1].msg /\ messages[4] = arrived[2].msg

----------------------------------------------------------------------------
(* C10 *)

\* C10: every settlement clears loading in every outcome, so loading is false
\* whenever no call is pending; and, pending calls always settling, loading
\* becomes false after every submission.
C10_LoadingCleared ==
    /\ [](pending = {} => ~loading)
    /\ [][arrived' # arrived => ~loading']_vars
    /\ (loading ~> ~loading)

\* each of the four outcomes has settled a call and loading is clear
C10_Witness ==
    /\ ~loading /\ pending = {}
    /\ \E i \in DOMAIN arrived : arrived[i].how # "decoded"
    /\ \E i \in DOMAIN arrived : arrived[i].how = "decoded"

----------------------------------------------------------------------------
(* Projections *)

\* a CostAnswer with all its fields
IsCostAnswer(a) ==
    /\ a.t = "object"
    /\ Get(a, "age_group").t = "string" /\ Get(a, "setting").t = "string"
    /\ Get(a, "weekly").t = "object" /\ Get(a, "monthly").t = "object"

\* the messages that carry an answers sequence of CostAnswers
CostShown ==
    {i \in DOMAIN messages :
        /\ IsArray(OptGet(messages[i].data, "answers"))
        /\ \A k \in DOMAIN Get(messages[i].data, "answers").v :
              IsCostAnswer(Get(messages[i].data, "answers").v[k])}

AnswersOf(m) == Get(m.data, "answers").v
SettingOf(a) == TemplateStr(Get(a, "setting"))

FirstOccurrence(answers, st) ==
    CHOOSE i \in DOMAIN answers :
        /\ SettingOf(answers[i]) = st
        /\ \A j \in 1..(i - 1) : SettingOf(answers[j]) # st

\* infant < toddler < preschool < any other value
PriorityOf(a) ==
    IF Get(a, "age_group") = Str("infant") THEN 1
    ELSE IF Get(a, "age_group") = Str("toddler") THEN 2
    ELSE IF Get(a, "age_group") = Str("preschool") THEN 3
    ELSE 4

\* answers ordered by priority, equal priorities in their original relative order
StableByPriority(answers) ==
    LET P1(a) == PriorityOf(a) = 1
        P2(a) == PriorityOf(a) = 2
        P3(a) == PriorityOf(a) = 3
        P4(a) == PriorityOf(a) = 4
    IN  SelectSeq(answers, P1) \o SelectSeq(answers, P2)
            \o SelectSeq(answers, P3) \o SelectSeq(answers, P4)

WithSetting(answers, st) ==
    LET Same(a) == SettingOf(a) = st IN SelectSeq(answers, Same)

\* one group per distinct setting, each holding exactly its answers, sorted
GroupsFormed(answers, tables) ==
    /\ {tables[i].setting : i \in DOMAIN tables} = {SettingOf(answers[i]) : i \in DOMAIN answers}
    /\ \A i, j \in DOMAIN tables : i # j => tables[i].setting # tables[j].setting
    /\ \A i \in DOMAIN tables :
          tables[i].answers = StableByPriority(WithSetting(answers, tables[i].setting))
    /\ (answers = <<>> => tables = <<>>)

\* the groups appear in the order in which each setting first occurs
GroupsInFirstOccurrenceOrder(answers, tables) ==
    \A i, j \in DOMAIN tables :
        i < j => FirstOccurrence(answers, tables[i].setting)
                    < FirstOccurrence(answers, tables[j].setting)

\* C11: the Cost Projection of every answers sequence has one group per distinct
\* setting, the groups in first-occurrence order of their settings, each group
\* holding exactly the answers with that setting sorted by infant < toddler <
\* preschool < other with equal priorities in original order; empty answers
\* yields no groups.
C11_GroupedInFirstOccurrenceOrder ==
    \A i \in CostShown :
        /\ GroupsFormed(AnswersOf(messages[i]), RenderMessage(messages[i]).cost.tables)
        /\ GroupsInFirstOccurrenceOrder(AnswersOf(messages[i]),
                                        RenderMessage(messages[i]).cost.tables)

\* the assistant messages that carry an array of provider objects
WithProviders ==
    {i \in DOMAIN messages :
        /\ IsArray(messages[i].providers)
        /\ \A k \in DOMAIN messages[i].providers.v : messages[i].providers.v[k].t = "object"}

\* a member of (address, city, zip) that is neither null nor empty
Filled(x) == ~IsNullish(x) /\ x # Str("")

RECURSIVE CommaJoin(_)
CommaJoin(parts) ==
    IF parts = <<>> THEN ""
    ELSE IF Len(parts) = 1 THEN parts[1].v
    ELSE parts[1].v \o ", " \o CommaJoin(Tail(parts))

ExpectedAddress(p) ==
    LET parts == SelectSeq(<<Get(p, "address"), Get(p, "city"), Get(p, "zip")>>, Filled)
    IN  IF parts = <<>> THEN Dash ELSE CommaJoin(parts)

\* C12: the Provider Projection has exactly one row per provider, in input order,
\* nothing re-sorted or de-duplicated; each row's displayAddress is the ", "-join
\* of the non-null, non-empty members of (address, city, zip) in that order, the
\* placeholder when there is none; an empty provider sequence renders nothing.
C12_OneRowPerProvider ==
    \A i \in WithProviders :
        LET ps    == messages[i].providers.v
            table == RenderMessage(messages[i]).providers
        IN  /\ table.shown <=> ps # <<>>
            /\ Len(table.rows) = Len(ps)
            /\ \A k \in DOMAIN ps :
                  /\ table.rows[k].name = Get(ps[k], "name")
                  /\ table.rows[k].displayAddress = ExpectedAddress(ps[k])

\* two providers rendered: city only, then all three members null
C12_Witness ==
    \E i \in WithProviders :
        /\ messages[i].providers.v = <<Provider(Null, Str("Pittsburgh"), Null),
                                       Provider(Null, Null, Null)>>
        /\ Len(RenderMessage(messages[i]).providers.rows) = 2
        /\ RenderMessage(messages[i]).providers.rows[1].displayAddress = "Pittsburgh"
        /\ RenderMessage(messages[i]).providers.rows[2].displayAddress = Dash

\* the replies that arrived with a field missing or of the wrong type
ArrivedMalformed ==
    {i \in DOMAIN arrived : arrived[i].how = "decoded" /\ arrived[i].val \in MalformedBodies}

\* C13: for every decoded reply whose expected fields are missing or of the wrong
\* type, normalization produces an assistant message and rendering that message
\* (its content and the Provider, Cost and Clarifying-Question projections)
\* completes without throwing.
C13_MalformedNeverThrows ==
    \A i \in ArrivedMalformed :
        /\ IsAssistant(arrived[i].msg)
        /\ \E k \in DOMAIN messages : messages[k] = arrived[i].msg
        /\ ~RenderMessage(arrived[i].msg).threw

----------------------------------------------------------------------------
(* CostEstimator.onSubmit *)

Completed == estimator.step = "settle"

\* the call met no failure: status ok, a body decoded, and its ok not false
Succeeded ==
    /\ estimator.last.how = "decoded"
    /\ estimator.last.ok
    /\ ~IsNullish(estimator.last.val)
    /\ Get(estimator.last.val, "ok") # Bool(FALSE)

\* a failure was thrown by fetch, by r.json() or by reading a null body
FailureThrown ==
    \/ estimator.last.how \in {"fetchRejected", "jsonRejected"}
    \/ estimator.last.how = "decoded" /\ IsNullish(estimator.last.val)

FailureMessage ==
    IF estimator.last.how = "decoded"
    THEN Get(NullRead(IF estimator.last.ok THEN "ok" ELSE "error"), "message")
    ELSE Get(estimator.last.val, "message")

SubmitClears ==
    estimator.step = "onSubmit" =>
        estimator.loading /\ estimator.resp = Null /\ estimator.error = Null

CompletionStores(bodyError) ==
    Completed =>
        /\ ~estimator.loading
        /\ (estimator.resp # Null) # (estimator.error # Null)
        /\ IF Succeeded
           THEN estimator.resp = estimator.last.val
           ELSE /\ estimator.resp = Null
                /\ estimator.error = IF FailureThrown THEN FailureMessage ELSE bodyError

NeverBoth == ~(estimator.resp # Null /\ estimator.error # Null)

\* C14 as stated: the error of a refused reply is the body's error, and
\* "Request failed" only when the body has none
C14_AsStated ==
    /\ SubmitClears
    /\ CompletionStores(Coalesce(Get(estimator.last.val, "error"), Str("Request failed")))
    /\ NeverBoth

\* C14: each submission clears response and error and sets loading; when it
\* completes, loading is false and exactly one of response and error is
\* non-null: the response is stored only when the status is ok and the body's
\* ok is not false, otherwise the response stays null and the error is the thrown
\* failure's message, or the body's error, or "Request failed" when the body's
\* error is absent, null or empty; response and error are never both non-null.
C14_OneOfResponseOrError ==
    /\ SubmitClears
    /\ CompletionStores(OrElse(Get(estimator.last.val, "error"), Str("Request failed")))
    /\ NeverBoth

\* a submission completed by a reply with ok false and an empty error
C14_Witness ==
    /\ Completed
    /\ estimator.last.how = "decoded" /\ estimator.last.ok
    /\ estimator.last.val = Obj([ok |-> Bool(FALSE), error |-> Str("")])
    /\ ~estimator.loading
    /\ estimator.resp = Null
    /\ estimator.error = Str("Request failed")

====
